---- MODULE Spec2Model ----
(***************************************************************************)
(* A model of src/src/main.rs: the chess GUI's message handler             *)
(* (ChessApp::update) and the engine session (get_stockfish_move) that     *)
(* talks to a UCI engine over pipes.                                       *)
(*                                                                         *)
(* Text is modelled as a sequence of one-character strings, so that the    *)
(* session's line splitting, prefix tests, substring searches and slices   *)
(* are computed character by character, as the code computes them.         *)
(***************************************************************************)
EXTENDS Integers, Sequences, FiniteSets, TLC

(***************************************************************************)
(* Bounds of the model.                                                    *)
(***************************************************************************)
\* Lines of engine output in a generated transcript (before end of stream).
MaxLines == 2
\* Engine sessions that may exist at once (a limit of the model, not of the
\* code: the code has none).
MaxSessions == 2

(***************************************************************************)
(* Option<T>: None is the empty sequence, Some(x) the sequence <<x>>.      *)
(***************************************************************************)
None == <<>>
Some(x) == <<x>>
IsSome(o) == o # <<>>
Unwrap(o) == o[1]

(***************************************************************************)
(* Text helpers: the std operations main.rs calls on &str.                 *)
(***************************************************************************)
NL == "\n"
SP == " "

\* A word list joined by single spaces (used to write the literals below).
RECURSIVE Words(_)
Words(ws) ==
    IF ws = <<>> THEN <<>>
    ELSE IF Len(ws) = 1 THEN ws[1]
    ELSE ws[1] \o <<SP>> \o Words(Tail(ws))

\* str::starts_with
StartsWith(s, w) == Len(s) >= Len(w) /\ SubSeq(s, 1, Len(w)) = w

\* str::find: the byte offset (from 0) of the first occurrence, as an Option.
RECURSIVE FindFrom(_, _, _)
FindFrom(s, w, i) ==
    IF i + Len(w) > Len(s) THEN None
    ELSE IF SubSeq(s, i + 1, i + Len(w)) = w THEN Some(i)
    ELSE FindFrom(s, w, i + 1)

Find(s, w) == FindFrom(s, w, 0)

\* str::split_whitespace: the maximal runs of non-whitespace characters.
RECURSIVE SplitWs(_, _, _)
SplitWs(s, i, cur) ==
    IF i > Len(s) THEN (IF cur = <<>> THEN <<>> ELSE <<cur>>)
    ELSE IF s[i] \in {SP, NL, "\r", "\t"}
         THEN (IF cur = <<>> THEN <<>> ELSE <<cur>>) \o SplitWs(s, i + 1, <<>>)
         ELSE SplitWs(s, i + 1, Append(cur, s[i]))

SplitWhitespace(s) == SplitWs(s, 1, <<>>)

\* A line as str::lines yields it: without a trailing carriage return.
StripCr(l) ==
    IF l # <<>> /\ l[Len(l)] = "\r" THEN SubSeq(l, 1, Len(l) - 1) ELSE l

\* str::lines: the text split at each newline; a last line without a newline
\* is yielded too (when it is not empty).
RECURSIVE SplitLines(_, _, _)
SplitLines(s, i, cur) ==
    IF i > Len(s) THEN (IF cur = <<>> THEN <<>> ELSE <<StripCr(cur)>>)
    ELSE IF s[i] = NL THEN <<StripCr(cur)>> \o SplitLines(s, i + 1, <<>>)
         ELSE SplitLines(s, i + 1, Append(cur, s[i]))

Lines(s) == SplitLines(s, 1, <<>>)

\* Iterator::position(|s| s == w): the index (from 0) of the first equal item.
RECURSIVE PositionFrom(_, _, _)
PositionFrom(parts, w, i) ==
    IF i > Len(parts) THEN None
    ELSE IF parts[i] = w THEN Some(i - 1)
    ELSE PositionFrom(parts, w, i + 1)

Position(parts, w) == PositionFrom(parts, w, 1)

\* slice::contains
Contains(parts, w) == \E i \in 1..Len(parts) : parts[i] = w

\* String::from_utf8_lossy on one read's bytes: a byte that is not valid
\* UTF-8 becomes the replacement character, every other byte is kept.  The
\* engine output of the model is ASCII.
InvalidByte == "0xFF"
ReplacementChar == "U+FFFD"
FromUtf8Lossy(bytes) ==
    [i \in 1..Len(bytes) |->
        IF bytes[i] = InvalidByte THEN ReplacementChar ELSE bytes[i]]

(***************************************************************************)
(* The literals of get_stockfish_move.                                     *)
(***************************************************************************)
StrInfo == <<"i", "n", "f", "o">>
StrBestmove == <<"b", "e", "s", "t", "m", "o", "v", "e">>
StrScoreCp == <<"s", "c", "o", "r", "e", SP, "c", "p">>
StrCp == <<"c", "p">>
StrPv == <<"p", "v">>
StrLowerbound == <<"l", "o", "w", "e", "r", "b", "o", "u", "n", "d">>
StrUpperbound == <<"u", "p", "p", "e", "r", "b", "o", "u", "n", "d">>
\* "Evaluation: " of the format string.
StrEvaluation ==
    <<"E", "v", "a", "l", "u", "a", "t", "i", "o", "n", ":", SP>>
\* The characters U+2265 and U+2264 of the format's bound sign.
GeSign == <<"U+2265">>
LeSign == <<"U+2264">>

(***************************************************************************)
(* ChessMove::from_str (crate chess, called at main.rs 320 and 327): a     *)
(* token of two squares and an optional promotion letter.  Every token of  *)
(* the model longer than five characters fails at its first square.        *)
(***************************************************************************)
Files == {"a", "b", "c", "d", "e", "f", "g", "h"}
Ranks == {"1", "2", "3", "4", "5", "6", "7", "8"}
PromoLetters == {"q", "r", "n", "b"}
NoPromo == "-"

IsSquare(s) == Len(s) = 2 /\ s[1] \in Files /\ s[2] \in Ranks

ChessMoveNew(src, dst, promo) == [src |-> src, dst |-> dst, promo |-> promo]

Decode(tok) ==
    IF Len(tok) \notin {4, 5} THEN None
    ELSE IF ~IsSquare(SubSeq(tok, 1, 2)) \/ ~IsSquare(SubSeq(tok, 3, 4)) THEN None
    ELSE IF Len(tok) = 5
         THEN (IF tok[5] \in PromoLetters
               THEN Some(ChessMoveNew(SubSeq(tok, 1, 2), SubSeq(tok, 3, 4), tok[5]))
               ELSE None)
         ELSE Some(ChessMoveNew(SubSeq(tok, 1, 2), SubSeq(tok, 3, 4), NoPromo))

\* filter_map(|m| ChessMove::from_str(m).ok()): the decodable tokens, in order.
RECURSIVE DecodeAll(_)
DecodeAll(toks) ==
    IF toks = <<>> THEN <<>>
    ELSE Decode(Head(toks)) \o DecodeAll(Tail(toks))

(***************************************************************************)
(* get_stockfish_move: the body of the read loop (main.rs 300-334).        *)
(* A loop state holds the task's locals; panic is None or Some(message).   *)
(***************************************************************************)
PanicSlice == "byte index out of range"
PanicNoBestMove == "No best move found"
PanicSpawn == "Failed to start Stockfish"
PanicWrite == "Write failed"
PanicFlush == "Flush failed"
PanicRead == "Read failed"

\* A parser that keeps the first score it has recorded (what main.rs 304-316
\* would do if a later score did not replace an earlier one).
ScoreOfInfoKeepsFirst(line, evaluation) ==
    IF evaluation # <<>> THEN evaluation
    ELSE IF ~IsSome(Find(line, StrScoreCp)) THEN evaluation
    ELSE LET parts == SplitWhitespace(line)
             cp_idx == Position(parts, StrCp)
         IN IF ~IsSome(cp_idx) THEN evaluation
            ELSE IF Unwrap(cp_idx) + 2 > Len(parts) THEN evaluation
            ELSE StrEvaluation
                 \o (IF Contains(parts, StrLowerbound) THEN GeSign
                     ELSE IF Contains(parts, StrUpperbound) THEN LeSign
                     ELSE <<>>)
                 \o parts[Unwrap(cp_idx) + 2]

\* main.rs 304-316: the evaluation text after an info line.
ScoreOfInfo(line, evaluation) ==
    IF ~IsSome(Find(line, StrScoreCp)) THEN evaluation
    ELSE LET parts == SplitWhitespace(line)
             cp_idx == Position(parts, StrCp)
         IN IF ~IsSome(cp_idx) THEN evaluation
            ELSE IF Unwrap(cp_idx) + 2 > Len(parts) THEN evaluation
            ELSE StrEvaluation
                 \o (IF Contains(parts, StrLowerbound) THEN GeSign
                     ELSE IF Contains(parts, StrUpperbound) THEN LeSign
                     ELSE <<>>)
                 \o parts[Unwrap(cp_idx) + 2]

\* main.rs 317-322: the slice line[pv_idx+3..] panics when it starts past the
\* end of the line.
PvSlicePanics(line) ==
    LET pv_idx == Find(line, StrPv)
    IN IsSome(pv_idx) /\ Unwrap(pv_idx) + 3 > Len(line)

\* A parser that appends a line's moves to those it has recorded (what
\* main.rs 317-322 would do with extend in place of the assignment).
PvOfInfoAppends(line, pv) ==
    LET pv_idx == Find(line, StrPv)
    IN IF ~IsSome(pv_idx) THEN pv
       ELSE pv \o DecodeAll(SplitWhitespace(SubSeq(line, Unwrap(pv_idx) + 4, Len(line))))

PvOfInfo(line, pv) ==
    LET pv_idx == Find(line, StrPv)
    IN IF ~IsSome(pv_idx) THEN pv
       ELSE DecodeAll(SplitWhitespace(SubSeq(line, Unwrap(pv_idx) + 4, Len(line))))

\* main.rs 325-327: the move of a bestmove line.
BestMoveOfLine(line) ==
    LET parts == SplitWhitespace(line)
    IN IF Len(parts) < 2 THEN None ELSE Decode(parts[2])

\* main.rs 302-330: the for loop over output.lines(), from line i on.
RECURSIVE ProcessLines(_, _, _)
ProcessLines(lines, i, st) ==
    IF i > Len(lines) THEN st
    ELSE LET line == lines[i]
             isInfo == StartsWith(line, StrInfo)
         IN IF isInfo /\ PvSlicePanics(line)
            THEN [st EXCEPT !.evaluation = ScoreOfInfo(line, st.evaluation),
                            !.panic = Some(PanicSlice)]
            ELSE LET st1 == IF isInfo
                            THEN [st EXCEPT
                                    !.evaluation = ScoreOfInfo(line, st.evaluation),
                                    !.pv = PvOfInfo(line, st.pv)]
                            ELSE st
                 IN IF StartsWith(line, StrBestmove)
                    THEN [st1 EXCEPT !.best_move = BestMoveOfLine(line)]
                    ELSE ProcessLines(lines, i + 1, st1)

\* main.rs 290-293: the locals before the loop.
LoopInit ==
    [output |-> <<>>, evaluation |-> <<>>, pv |-> <<>>, best_move |-> None,
     panic |-> None]

\* main.rs 300-330: one iteration of the read loop on a chunk of n > 0 bytes.
Feed(st, chunk) ==
    LET out == st.output \o FromUtf8Lossy(chunk)
    IN ProcessLines(Lines(out), 1, [st EXCEPT !.output = out])

\* main.rs 338-342: the task's value, or its panic.
EngineMove(mv, evaluation, pv) ==
    [kind |-> "EngineMove", mv |-> mv, evaluation |-> evaluation, pv |-> pv]
Panicked(msg) == [kind |-> "panic", msg |-> msg]

Conclude(st) ==
    IF IsSome(st.panic) THEN Panicked(Unwrap(st.panic))
    ELSE IF IsSome(st.best_move)
         THEN EngineMove(Unwrap(st.best_move), st.evaluation, st.pv)
         ELSE Panicked(PanicNoBestMove)

(***************************************************************************)
(* The rules engine (crate chess), as far as update() uses it.  The crate  *)
(* is not part of the repository: the model keeps of a Game the side to    *)
(* move and the result, knows one quiet and one mating move per side, and  *)
(* takes every other move to be illegal.                                   *)
(***************************************************************************)
White == "White"
Black == "Black"
Other(c) == IF c = White THEN Black ELSE White

SqE2 == <<"e", "2">>
SqE4 == <<"e", "4">>
SqD1 == <<"d", "1">>
SqH5 == <<"h", "5">>
SqE7 == <<"e", "7">>
SqE5 == <<"e", "5">>
SqD8 == <<"d", "8">>
SqH4 == <<"h", "4">>

\* The squares the user clicks in the model.
UserSquares == {SqE2, SqE4, SqD1, SqH5}

QuietMoves(c) ==
    IF c = White THEN {ChessMoveNew(SqE2, SqE4, NoPromo)}
    ELSE {ChessMoveNew(SqE7, SqE5, NoPromo)}
MatingMoves(c) ==
    IF c = White THEN {ChessMoveNew(SqD1, SqH5, NoPromo)}
    ELSE {ChessMoveNew(SqD8, SqH4, NoPromo)}

\* Game::new()
GameNew == [side_to_move |-> White, result |-> None]

\* Game::result()
Result(game) == game.result

\* Board::legal on game.current_position()
Legal(game, mv) ==
    ~IsSome(game.result)
    /\ mv \in QuietMoves(game.side_to_move) \cup MatingMoves(game.side_to_move)

\* Game::make_move: whether the move is made, and the game after it.
MakeMoveOk(game, mv) == ~IsSome(Result(game)) /\ Legal(game, mv)
MakeMove(game, mv) ==
    IF ~MakeMoveOk(game, mv) THEN game
    ELSE [side_to_move |-> Other(game.side_to_move),
          result |-> IF mv \in MatingMoves(game.side_to_move)
                     THEN Some(IF game.side_to_move = White
                               THEN "WhiteCheckmates" ELSE "BlackCheckmates")
                     ELSE None]

\* game.current_position().to_string(): the position's FEN, of which the model
\* keeps the side-to-move field and whether the side to move is mated.
Fen(game) ==
    [active |-> IF game.side_to_move = White THEN "w" ELSE "b",
     mated |-> IsSome(game.result)]

(***************************************************************************)
(* main.rs 276-284: the command block written to the engine.               *)
(***************************************************************************)
Commands(fen) ==
    << [text |-> "uci", fen |-> None],
       [text |-> "isready", fen |-> None],
       [text |-> "ucinewgame", fen |-> None],
       [text |-> "position fen", fen |-> Some(fen)],
       [text |-> "setoption name Skill Level value 20", fen |-> None],
       [text |-> "setoption name Contempt value 100", fen |-> None],
       [text |-> "setoption name UCI_LimitStrength value false", fen |-> None],
       [text |-> "go movetime 5000", fen |-> None] >>

(***************************************************************************)
(* Engine output: words, lines and transcripts.                            *)
(***************************************************************************)
WDepth == <<"d", "e", "p", "t", "h">>
WScore == <<"s", "c", "o", "r", "e">>
WMultipv == <<"m", "u", "l", "t", "i", "p", "v">>
WReadyok == <<"r", "e", "a", "d", "y", "o", "k">>
WNone == <<"(", "n", "o", "n", "e", ")">>
WZz99 == <<"z", "z", "9", "9">>
WAbc == <<"a", "b", "c">>
W1 == <<"1">>
W35 == <<"3", "5">>
W50 == <<"5", "0">>
WM120 == <<"-", "1", "2", "0">>
WE2E4 == SqE2 \o SqE4
WE7E5 == SqE7 \o SqE5
WD2D4 == <<"d", "2", "d", "4">>
WE7E8Q == <<"e", "7", "e", "8", "q">>

\* A line with its newline.
Ln(ws) == Words(ws) \o <<NL>>

\* Lines of the shapes the parser tells apart.
LineInfoScore == Ln(<<StrInfo, WScore, StrCp, W50>>)
LineInfoPv == Ln(<<StrInfo, StrPv, WE7E5>>)
LineInfoEndsPv == Ln(<<StrInfo, StrPv>>)
LineInfoMultipv == Ln(<<StrInfo, WMultipv, W1>>)
LineInfoBadScore == Ln(<<StrInfo, WScore, StrCp, WAbc>>)
LineReadyok == Ln(<<WReadyok>>)
LineBestE2E4 == Ln(<<StrBestmove, WE2E4>>)
LineBestD2D4 == Ln(<<StrBestmove, WD2D4>>)
LineBestE7E5 == Ln(<<StrBestmove, WE7E5>>)
LineBestPromo == Ln(<<StrBestmove, WE7E8Q>>)
LineBestNone == Ln(<<StrBestmove, WNone>>)
LineBestZz99 == Ln(<<StrBestmove, WZz99>>)

LinePool ==
    {LineInfoScore, LineInfoPv, LineInfoEndsPv, LineInfoMultipv,
     LineInfoBadScore, LineReadyok, LineBestE7E5, LineBestPromo,
     LineBestNone, LineBestZz99}

\* spec.md, section 8: the transcripts of scenarios A and E.
LineInfoA == Ln(<<StrInfo, WDepth, W1, WScore, StrCp, W35, StrPv, WE2E4, WE7E5>>)
LineInfoE == Ln(<<StrInfo, WScore, StrCp, WM120, StrUpperbound, StrPv, WD2D4>>)
ScenarioA == LineInfoA \o LineBestE2E4
ScenarioE == LineInfoE \o LineBestD2D4

\* Transcripts of two info lines and a bestmove line: two scores, two
\* principal variations, a principal variation followed by a pv section
\* without a decodable move, and a bound token before the score.
LineInfoLower == Ln(<<StrInfo, WScore, StrCp, W35, StrLowerbound>>)
LineInfoBoundFirst == Ln(<<StrInfo, StrLowerbound, WScore, StrCp, W35>>)
LineInfoPv2 == Ln(<<StrInfo, StrPv, WE2E4, WE7E5>>)
LineInfoPvBad == Ln(<<StrInfo, StrPv, WZz99>>)
LineInfoPvEmpty == Words(<<StrInfo, StrPv>>) \o <<SP, NL>>

TwoScores == LineInfoScore \o LineInfoLower \o LineBestE7E5
TwoScoresRev == LineInfoLower \o LineInfoScore \o LineBestE7E5
TwoPvs == LineInfoPv2 \o LineInfoPv \o LineBestE7E5
TwoPvsRev == LineInfoPv \o LineInfoPv2 \o LineBestE7E5
PvThenBad == LineInfoPv \o LineInfoPvBad \o LineBestE7E5
PvThenEmpty == LineInfoPv \o LineInfoPvEmpty \o LineBestE7E5
BoundFirst == LineInfoBoundFirst \o LineBestE7E5

Scenarios ==
    {ScenarioA, ScenarioE, TwoScores, TwoScoresRev, TwoPvs, TwoPvsRev,
     PvThenBad, PvThenEmpty, BoundFirst}

\* Every transcript of at most n lines of the pool.
RECURSIVE TranscriptsOf(_)
TranscriptsOf(n) ==
    IF n = 0 THEN {<<>>}
    ELSE LET shorter == TranscriptsOf(n - 1)
         IN shorter \cup {t \o l : t \in shorter, l \in LinePool}

\* What the engine prints in a session: up to MaxLines lines, or a scenario.
Transcripts == TranscriptsOf(MaxLines) \cup Scenarios

\* What the engine answers in the runs of the whole application: a reply
\* for Black, a move whose squares are a legal move of White in the opening
\* position (as a reply computed for another position may be), or nothing.
AppTranscripts ==
    {LineInfoPv \o LineBestE7E5, LineBestE2E4, <<>>}

(***************************************************************************)
(* State: the fields of ChessApp (main.rs 25-33) and the engine sessions:  *)
(* the tasks get_stockfish_move has handed to the runtime.                 *)
(***************************************************************************)
VARIABLES game, selected_square, current_turn, status, engine_evaluation,
          principal_variation, sessions

appVars ==
    <<game, selected_square, current_turn, status, engine_evaluation,
      principal_variation>>
vars ==
    <<game, selected_square, current_turn, status, engine_evaluation,
      principal_variation, sessions>>

StatusWhite == "White's turn"
StatusThinking == "Stockfish is thinking..."
StatusNewGame == "New game - White's turn"

\* main.rs 296: the read buffer.
BufSize == 1024

Slots == 1..MaxSessions

\* A slot no task occupies.  pc is the await point the task stands at:
\* spawn, write, flush, read; done when its message waits for update();
\* delivered or panicked when it is over.  rest is what the engine has still
\* to print.  stale is not the program's: it records that NewGame ran after
\* the session was started.
IdleSession ==
    [pc |-> "idle", game |-> GameNew, stdin |-> <<>>, flushed |-> FALSE,
     rest |-> <<>>, eof |-> FALSE,
     output |-> <<>>, evaluation |-> <<>>, pv |-> <<>>, best_move |-> None,
     panic |-> None, outcome |-> None, stale |-> FALSE]

Running(s) == sessions[s].pc \in {"spawn", "write", "flush", "read"}
Free(s) == sessions[s].pc \in {"idle", "delivered", "panicked"}
Min(a, b) == IF a < b THEN a ELSE b

\* main.rs 48-64: ChessApp::new
Init ==
    /\ game = GameNew
    /\ selected_square = None
    /\ current_turn = White
    /\ status = StatusWhite
    /\ engine_evaluation = <<>>
    /\ principal_variation = <<>>
    /\ sessions = [s \in Slots |-> IdleSession]

\* A task created with the game as it is before the user's move (what
\* main.rs 88-91 would do if it passed the game before line 84's assignment).
GetStockfishMoveBeforeMove(s, g) ==
    [sessions EXCEPT ![s] = [IdleSession EXCEPT !.pc = "spawn", !.game = game]]

\* main.rs 267-269: the task Command::perform creates, in the slot s.
GetStockfishMove(s, g) ==
    [sessions EXCEPT ![s] = [IdleSession EXCEPT !.pc = "spawn", !.game = g]]

\* main.rs 70-98: update(Message::SquareSelected(square)).
SquareSelected(square) ==
    IF IsSome(Result(game)) THEN UNCHANGED vars
    ELSE IF current_turn # White THEN UNCHANGED vars
    ELSE IF IsSome(selected_square)
            /\ Legal(game, ChessMoveNew(Unwrap(selected_square), square, NoPromo))
            /\ MakeMoveOk(game, ChessMoveNew(Unwrap(selected_square), square, NoPromo))
    THEN \E s \in Slots :
            /\ Free(s)
            /\ \A r \in Slots : r < s => ~Free(r)
            /\ game' = MakeMove(game, ChessMoveNew(Unwrap(selected_square), square, NoPromo))
            /\ current_turn' = Black
            /\ status' = StatusThinking
            /\ selected_square' = None
            /\ sessions' = GetStockfishMove(s, game')
            /\ UNCHANGED <<engine_evaluation, principal_variation>>
    ELSE /\ selected_square' = Some(square)
         /\ UNCHANGED <<game, current_turn, status, engine_evaluation,
                        principal_variation, sessions>>

\* main.rs 70-75, 99-109: update(Message::EngineMove(..)) with the value of
\* the finished task s.
DeliverEngineMove(s) ==
    /\ sessions[s].pc = "done"
    /\ sessions' = [sessions EXCEPT ![s] = [IdleSession EXCEPT !.pc = "delivered"]]
    /\ LET m == Unwrap(sessions[s].outcome)
       IN IF ~IsSome(Result(game)) /\ MakeMoveOk(game, m.mv)
          THEN /\ game' = MakeMove(game, m.mv)
               /\ current_turn' = White
               /\ status' = StatusWhite
               /\ engine_evaluation' = m.evaluation
               /\ principal_variation' = m.pv
               /\ UNCHANGED selected_square
          ELSE UNCHANGED appVars

\* A NewGame that resets the state whatever the game's result (what
\* main.rs 110-118 would do without the early return of lines 71-73).
NewGameAlways ==
    /\ game' = GameNew
    /\ current_turn' = White
    /\ selected_square' = None
    /\ status' = StatusNewGame
    /\ engine_evaluation' = <<>>
    /\ principal_variation' = <<>>
    /\ sessions' = [s \in Slots |->
           IF Free(s) THEN sessions[s]
           ELSE [sessions[s] EXCEPT !.stale = TRUE]]

\* main.rs 70-75, 110-118: update(Message::NewGame).
NewGame ==
    IF IsSome(Result(game)) THEN UNCHANGED vars
    ELSE /\ game' = GameNew
         /\ current_turn' = White
         /\ selected_square' = None
         /\ status' = StatusNewGame
         /\ engine_evaluation' = <<>>
         /\ principal_variation' = <<>>
         /\ sessions' = [s \in Slots |->
                IF Free(s) THEN sessions[s]
                ELSE [sessions[s] EXCEPT !.stale = TRUE]]

\* The end of a task: its value becomes a message, or it has panicked; its
\* locals are dropped.
Finish(st) ==
    LET r == Conclude(st)
    IN [IdleSession EXCEPT
            !.pc = IF r.kind = "panic" THEN "panicked" ELSE "done",
            !.outcome = Some(r),
            !.stale = (r.kind # "panic" /\ st.stale)]

Panic(st, msg) == Finish([st EXCEPT !.panic = Some(msg)])

\* main.rs 270-274: the engine is spawned; what it will print is the
\* environment's choice.
Spawn(s, transcripts) ==
    /\ sessions[s].pc = "spawn"
    /\ \E t \in transcripts :
          sessions' = [sessions EXCEPT ![s].pc = "write", ![s].rest = t]
    /\ UNCHANGED appVars

SpawnFail(s) ==
    /\ sessions[s].pc = "spawn"
    /\ sessions' = [sessions EXCEPT ![s] = Panic(@, PanicSpawn)]
    /\ UNCHANGED appVars

\* A session that goes on to read without awaiting the write and the flush
\* (what main.rs 285-288 would do with the write handed to another task).
WriteNotAwaited(s) ==
    /\ sessions[s].pc = "write"
    /\ sessions' = [sessions EXCEPT ![s].pc = "read"]
    /\ UNCHANGED appVars

\* main.rs 276-286: write_all of the command block.
WriteAll(s) ==
    /\ sessions[s].pc = "write"
    /\ sessions' = [sessions EXCEPT ![s].pc = "flush",
                                    ![s].stdin = Commands(Fen(sessions[s].game))]
    /\ UNCHANGED appVars

WriteFail(s) ==
    /\ sessions[s].pc = "write"
    /\ sessions' = [sessions EXCEPT ![s] = Panic(@, PanicWrite)]
    /\ UNCHANGED appVars

\* main.rs 287-296: flush, then the loop's first read is awaited.
Flush(s) ==
    /\ sessions[s].pc = "flush"
    /\ sessions' = [sessions EXCEPT ![s].pc = "read", ![s].flushed = TRUE]
    /\ UNCHANGED appVars

FlushFail(s) ==
    /\ sessions[s].pc = "flush"
    /\ sessions' = [sessions EXCEPT ![s] = Panic(@, PanicFlush)]
    /\ UNCHANGED appVars

\* main.rs 297-342: a read returns n > 0 bytes; the loop body runs, and the
\* task goes on to the next read, or ends.
AfterRead(st, n) ==
    LET fed == [Feed(st, SubSeq(st.rest, 1, n)) EXCEPT
                    !.rest = SubSeq(st.rest, n + 1, Len(st.rest))]
    IN IF IsSome(fed.panic) \/ IsSome(fed.best_move) THEN Finish(fed) ELSE fed

Read(s) ==
    /\ sessions[s].pc = "read"
    /\ \E n \in 1..Min(BufSize, Len(sessions[s].rest)) :
          sessions' = [sessions EXCEPT ![s] = AfterRead(@, n)]
    /\ UNCHANGED appVars

\* main.rs 298-299, 338-342: a read returns 0 bytes (the engine closed its
\* output); the loop ends.
ReadEof(s) ==
    /\ sessions[s].pc = "read"
    /\ sessions[s].rest = <<>>
    /\ sessions' = [sessions EXCEPT ![s] = Finish([@ EXCEPT !.eof = TRUE])]
    /\ UNCHANGED appVars

\* main.rs 298: a read fails.
ReadFail(s) ==
    /\ sessions[s].pc = "read"
    /\ sessions' = [sessions EXCEPT ![s] = Panic(@, PanicRead)]
    /\ UNCHANGED appVars

SessionStep(s, transcripts) ==
    \/ Spawn(s, transcripts)
    \/ SpawnFail(s)
    \/ WriteAll(s)
    \/ WriteFail(s)
    \/ Flush(s)
    \/ FlushFail(s)
    \/ Read(s)
    \/ ReadEof(s)
    \/ ReadFail(s)

Next ==
    \/ \E square \in UserSquares : SquareSelected(square)
    \/ NewGame
    \/ \E s \in Slots : DeliverEngineMove(s)
    \/ \E s \in Slots : SessionStep(s, AppTranscripts)

Spec == Init /\ [][Next]_vars

(***************************************************************************)
(* The engine session on its own: the application has made the user's      *)
(* first move and started one session, whose engine has been spawned and   *)
(* has received the commands; the engine prints any transcript.            *)
(***************************************************************************)
GameAfterUserMove == MakeMove(GameNew, ChessMoveNew(SqE2, SqE4, NoPromo))

SessionInit ==
    /\ game = GameAfterUserMove
    /\ selected_square = None
    /\ current_turn = Black
    /\ status = StatusThinking
    /\ engine_evaluation = <<>>
    /\ principal_variation = <<>>
    /\ \E t \in Transcripts :
          sessions = [s \in Slots |->
             IF s = 1
             THEN [IdleSession EXCEPT
                     !.pc = "read", !.game = GameAfterUserMove,
                     !.stdin = Commands(Fen(GameAfterUserMove)),
                     !.flushed = TRUE, !.rest = t]
             ELSE IdleSession]

SessionNext ==
    \/ \E s \in Slots : Read(s)
    \/ \E s \in Slots : ReadEof(s)
    \/ \E s \in Slots : ReadFail(s)
    \/ \E s \in Slots : DeliverEngineMove(s)

SessionSpec == SessionInit /\ [][SessionNext]_vars

(***************************************************************************)
(* Vocabulary of the claims (spec.md, sections 4.2 to 4.4 and 7).          *)
(***************************************************************************)
\* The text up to and including its last newline: the complete lines.
RECURSIVE LastNewline(_, _)
LastNewline(s, i) ==
    IF i = 0 THEN 0 ELSE IF s[i] = NL THEN i ELSE LastNewline(s, i - 1)

CompleteLines(s) == Lines(SubSeq(s, 1, LastNewline(s, Len(s))))

\* Everything the engine prints in the session s: what has been read and
\* what is still to come.
TranscriptOf(st) == st.output \o st.rest

\* The move token of a bestmove line (spec.md 4.2, BestMove.token).
IsBestmoveLine(line) == StartsWith(line, StrBestmove)
BestmoveToken(line) ==
    LET parts == SplitWhitespace(line)
    IN IF Len(parts) < 2 THEN None ELSE Some(parts[2])

\* A session that has failed with a typed error (spec.md 7); the decision it
\* would have delivered is discarded.
FailedWith(st, err) ==
    /\ st.pc = "failed"
    /\ st.outcome = Some([kind |-> "error", error |-> err])

Ended(st) == st.pc \in {"done", "delivered", "panicked", "failed"}

\* The step of s is the end of its read loop, not by a failing read.
EndsReading(pre, post) ==
    /\ pre.pc = "read"
    /\ post.pc \in {"done", "panicked"}
    /\ post.outcome # Some(Panicked(PanicRead))

\* What the session yields when the whole transcript arrives in one read
\* (and, should the loop go on, the stream then closes).
OneChunkOutcome(t) ==
    IF t = <<>> THEN Conclude(LoopInit) ELSE Conclude(Feed(LoopInit, t))

\* C1: for every transcript and every way of splitting it into read chunks,
\* the session ends with the outcome (decision or failure) it ends with when
\* the whole transcript arrives in one chunk.
\* (Two panics count as the same failure, whatever their messages.)
SameOutcome(a, b) == IF a.kind = "panic" THEN b.kind = "panic" ELSE a = b

C1_ChunkingIndependent ==
    [][\A s \in Slots :
         EndsReading(sessions[s], sessions'[s])
         => SameOutcome(Unwrap(sessions'[s].outcome),
                        OneChunkOutcome(TranscriptOf(sessions[s])))]_vars

\* C2: at most one engine session is running at any time.
C2_AtMostOneSession ==
    Cardinality({s \in Slots : Running(s)}) <= 1

\* C3: the EngineMove of a session started before a NewGame is never
\* delivered to update() (so never applied to the new game).
C3_NoStaleDelivery ==
    [][\A s \in Slots :
         ~(sessions[s].pc = "done" /\ sessions[s].stale
           /\ sessions'[s].pc = "delivered")]_vars

\* C4: a session that has ended has delivered an event (a decision or a
\* typed error) to the orchestrator: no failure aborts the task without one.
C4_EveryEndDeliversAnEvent ==
    \A s \in Slots :
        Ended(sessions[s]) => sessions[s].pc \in {"done", "delivered", "failed"}

\* C5: once the line "bestmove (none)" has been received, the session has
\* stopped reading and has ended with the error NoLegalMove.
C5_NoneIsNoLegalMove ==
    \A s \in Slots :
        (\E i \in 1..Len(CompleteLines(sessions[s].output)) :
            LET line == CompleteLines(sessions[s].output)[i]
            IN IsBestmoveLine(line) /\ BestmoveToken(line) = Some(WNone))
        => FailedWith(sessions[s], "NoLegalMove")

\* C6: when a read returns zero bytes before any bestmove line has been
\* received, the session ends with the error StreamClosedPrematurely.
C6_EofIsStreamClosedPrematurely ==
    [][\A s \in Slots :
         (/\ ReadEof(s)
          /\ \A i \in 1..Len(Lines(sessions[s].output)) :
                ~IsBestmoveLine(Lines(sessions[s].output)[i]))
         => FailedWith(sessions'[s], "StreamClosedPrematurely")]_vars

\* C7: once a bestmove line whose move token does not decode (and is not
\* "(none)") has been received, the session has stopped reading and has
\* ended with the error UnparsableBestMove.
C7_BadTokenIsUnparsableBestMove ==
    \A s \in Slots :
        (\E i \in 1..Len(CompleteLines(sessions[s].output)) :
            LET line == CompleteLines(sessions[s].output)[i]
            IN /\ IsBestmoveLine(line)
               /\ IsSome(BestmoveToken(line))
               /\ BestmoveToken(line) # Some(WNone)
               /\ ~IsSome(Decode(Unwrap(BestmoveToken(line)))))
        => FailedWith(sessions[s], "UnparsableBestMove")

\* C8: when update() receives an EngineMove whose move is illegal in the
\* current position, the position stays as it is and the displayed status
\* changes (to report the error).
C8_IllegalMoveIsReported ==
    [][\A s \in Slots :
         (/\ DeliverEngineMove(s)
          /\ ~IsSome(Result(game))
          /\ ~Legal(game, Unwrap(sessions[s].outcome).mv))
         => (game' = game /\ status' # status)]_vars

\* A transcript of complete lines: info lines, then one bestmove line whose
\* token decodes.
InfoThenBestmove(t) ==
    /\ t # <<>>
    /\ t[Len(t)] = NL
    /\ LET lines == Lines(t)
       IN /\ \A i \in 1..(Len(lines) - 1) :
                IsSome(SplitWhitespace(lines[i]))
                /\ SplitWhitespace(lines[i])[1] = StrInfo
          /\ IsBestmoveLine(lines[Len(lines)])
          /\ IsSome(BestmoveToken(lines[Len(lines)]))
          /\ IsSome(Decode(Unwrap(BestmoveToken(lines[Len(lines)]))))

\* C9: no content of an info line aborts the session: when the engine prints
\* info lines and then a bestmove line whose token decodes, the session ends
\* with a decision.
C9_InfoNeverAborts ==
    [][\A s \in Slots :
         (/\ EndsReading(sessions[s], sessions'[s])
          /\ InfoThenBestmove(TranscriptOf(sessions[s])))
         => Unwrap(sessions'[s].outcome).kind = "EngineMove"]_vars

\* spec.md 4.2: the score of an info line is the token sequence
\* "score cp <N>", qualified by a lowerbound or upperbound token after it; its
\* principal variation is the decodable tokens after the token "pv".
Digits == {"0", "1", "2", "3", "4", "5", "6", "7", "8", "9"}
IsNumber(tok) ==
    LET digits == IF tok # <<>> /\ tok[1] = "-" THEN Tail(tok) ELSE tok
    IN digits # <<>> /\ \A i \in 1..Len(digits) : digits[i] \in Digits

ScoreAt(parts, i) ==
    /\ i + 2 <= Len(parts)
    /\ parts[i] = WScore
    /\ parts[i + 1] = StrCp
    /\ IsNumber(parts[i + 2])

SpecScore(line) ==
    LET parts == SplitWhitespace(line)
        at == {i \in 1..Len(parts) : ScoreAt(parts, i)}
    IN IF at = {} THEN None
       ELSE LET i == CHOOSE j \in at : \A k \in at : j <= k
                after == SubSeq(parts, i + 3, Len(parts))
            IN Some(StrEvaluation
                    \o (IF Contains(after, StrLowerbound) THEN GeSign
                        ELSE IF Contains(after, StrUpperbound) THEN LeSign
                        ELSE <<>>)
                    \o parts[i + 2])

SpecPv(line) ==
    LET parts == SplitWhitespace(line)
        at == {i \in 1..Len(parts) : parts[i] = StrPv}
    IN IF at = {} THEN <<>>
       ELSE LET i == CHOOSE j \in at : \A k \in at : j <= k
            IN DecodeAll(SubSeq(parts, i + 1, Len(parts)))

\* The score of the last scored line among lines 1..n (None without one),
\* and the moves of the last among them that bears a principal variation.
RECURSIVE LastScore(_, _)
LastScore(lines, n) ==
    IF n = 0 THEN None
    ELSE IF IsSome(SpecScore(lines[n])) THEN SpecScore(lines[n])
    ELSE LastScore(lines, n - 1)

RECURSIVE LastPv(_, _)
LastPv(lines, n) ==
    IF n = 0 THEN <<>>
    ELSE IF SpecPv(lines[n]) # <<>> THEN SpecPv(lines[n])
    ELSE LastPv(lines, n - 1)

ExpectedDecision(t) ==
    LET lines == Lines(t)
        n == Len(lines)
        score == LastScore(lines, n - 1)
    IN EngineMove(Unwrap(Decode(Unwrap(BestmoveToken(lines[n])))),
                  IF IsSome(score) THEN Unwrap(score) ELSE <<>>,
                  LastPv(lines, n - 1))

\* C10: for info lines followed by a bestmove line whose token decodes, the
\* decision is the move of the bestmove line, the evaluation of the last
\* scored info line and the principal variation of the last info line that
\* bears one (for scenario A: e2e4, "Evaluation: 35", <<e2e4, e7e5>>).
C10_DecisionOfTranscript ==
    [][\A s \in Slots :
         (/\ EndsReading(sessions[s], sessions'[s])
          /\ InfoThenBestmove(TranscriptOf(sessions[s])))
         => sessions'[s].outcome
              = Some(ExpectedDecision(TranscriptOf(sessions[s])))]_vars

(***************************************************************************)
(* The accumulation of scores and principal variations over the info lines *)
(* (spec.md 3, 4.3 and 8).                                                 *)
(***************************************************************************)
\* The info lines of a text that the loop reaches: those before the first
\* bestmove line, where the for loop breaks (main.rs 324-328).
RECURSIVE FirstBestmoveFrom(_, _)
FirstBestmoveFrom(lines, i) ==
    IF i > Len(lines) THEN i
    ELSE IF IsBestmoveLine(lines[i]) THEN i
    ELSE FirstBestmoveFrom(lines, i + 1)

InfoLinesBeforeBestmove(t) ==
    LET lines == Lines(t)
    IN SelectSeq(SubSeq(lines, 1, FirstBestmoveFrom(lines, 1) - 1),
                 LAMBDA l : StartsWith(l, StrInfo))

\* What the parser records from one info line alone: its evaluation text
\* (empty when the line bears no score).
LineScore(line) == ScoreOfInfo(line, <<>>)

ScoredLines(t) ==
    SelectSeq(InfoLinesBeforeBestmove(t), LAMBDA l : LineScore(l) # <<>>)

\* The step of s ends its read loop with a decision.
Decides(pre, post) ==
    /\ EndsReading(pre, post)
    /\ Unwrap(post.outcome).kind = "EngineMove"

\* C11: when two or more info lines before the bestmove line bear a score,
\* the evaluation of the decision is the score (value and bound sign) of the
\* last of them alone, however the transcript is split into read chunks.
C11_LastScoreWins ==
    [][\A s \in Slots :
         LET scored == ScoredLines(TranscriptOf(sessions[s]))
         IN (Decides(sessions[s], sessions'[s]) /\ Len(scored) >= 2)
            => Unwrap(sessions'[s].outcome).evaluation
                 = LineScore(scored[Len(scored)])]_vars

\* A session has read two info lines with different scores and holds the
\* score of the second.
C11_TwoScoresRead ==
    \E s \in Slots :
        LET scored == ScoredLines(sessions[s].output)
        IN /\ sessions[s].pc = "read"
           /\ sessions[s].rest # <<>>
           /\ sessions[s].output # <<>>
           /\ sessions[s].output[Len(sessions[s].output)] = NL
           /\ Len(scored) >= 2
           /\ LineScore(scored[1]) # LineScore(scored[Len(scored)])
           /\ sessions[s].evaluation = LineScore(scored[Len(scored)])

\* What the parser records from one info line alone: None when it finds no
\* pv in the line (or the slice panics), else the moves it decodes.
LinePv(line) ==
    IF IsSome(Find(line, StrPv)) /\ ~PvSlicePanics(line)
    THEN Some(PvOfInfo(line, <<>>))
    ELSE None

PvLines(t) ==
    SelectSeq(InfoLinesBeforeBestmove(t), LAMBDA l : IsSome(LinePv(l)))

\* The last of the lines bears moves, and an earlier one bears other moves.
LaterPvDiffers(pvl) ==
    /\ Len(pvl) >= 2
    /\ Unwrap(LinePv(pvl[Len(pvl)])) # <<>>
    /\ \E j \in 1..(Len(pvl) - 1) :
          /\ Unwrap(LinePv(pvl[j])) # <<>>
          /\ Unwrap(LinePv(pvl[j])) # Unwrap(LinePv(pvl[Len(pvl)]))

\* C12: when an info line with a principal variation is followed by a later
\* one with fewer or different moves, the principal variation of the decision
\* is the later line's moves only: a pv list replaces the one before in full.
C12_LastPvReplaces ==
    [][\A s \in Slots :
         LET pvl == PvLines(TranscriptOf(sessions[s]))
         IN (Decides(sessions[s], sessions'[s]) /\ LaterPvDiffers(pvl))
            => Unwrap(sessions'[s].outcome).pv
                 = Unwrap(LinePv(pvl[Len(pvl)]))]_vars

\* A session has read two info lines with different principal variations
\* and holds the moves of the second.
C12_TwoPvsRead ==
    \E s \in Slots :
        LET pvl == PvLines(sessions[s].output)
        IN /\ sessions[s].pc = "read"
           /\ sessions[s].rest # <<>>
           /\ sessions[s].output # <<>>
           /\ sessions[s].output[Len(sessions[s].output)] = NL
           /\ LaterPvDiffers(pvl)
           /\ Len(Unwrap(LinePv(pvl[Len(pvl)]))) < Len(Unwrap(LinePv(pvl[1])))
           /\ sessions[s].pv = Unwrap(LinePv(pvl[Len(pvl)]))

\* C13: an info line replaces the recorded principal variation only with a
\* non-empty move list: once the session has read whole lines, it holds the
\* moves of the last info line whose pv section bears a decodable move (a
\* line with an empty pv section, or with pv tokens that all fail to decode,
\* left them as they were).
C13_EmptyPvKeepsPv ==
    \A s \in Slots :
        (/\ sessions[s].pc = "read"
         /\ sessions[s].output # <<>>
         /\ sessions[s].output[Len(sessions[s].output)] = NL)
        => LET infos == InfoLinesBeforeBestmove(sessions[s].output)
           IN sessions[s].pv = LastPv(infos, Len(infos))

\* C14: the bound sign of an evaluation comes from the tokens that follow
\* the score in its info line: the decision's evaluation is the value of the
\* last scored line with the sign of a lowerbound or upperbound token after
\* the value, and no sign when there is none after it (for scenario E:
\* at most -120).
C14_BoundFollowsScore ==
    [][\A s \in Slots :
         LET scored == ScoredLines(TranscriptOf(sessions[s]))
         IN (/\ Decides(sessions[s], sessions'[s])
             /\ scored # <<>>
             /\ IsSome(SpecScore(scored[Len(scored)])))
            => Unwrap(sessions'[s].outcome).evaluation
                 = Unwrap(SpecScore(scored[Len(scored)]))]_vars

(***************************************************************************)
(* The order of a session's steps and what it writes (spec.md 4.4).        *)
(***************************************************************************)
\* The step changes what the session s has written, or read.
Writes(pre, post) == post.stdin # pre.stdin /\ post.stdin # <<>>
Flushes(pre, post) == post.flushed /\ ~pre.flushed
Reads(pre, post) == pre.pc = "read" /\ post # pre /\ post.stale = pre.stale

\* C15: the steps of a session are sequential: the command block is written
\* in whole after the engine is spawned, the flush follows the write, and a
\* read of the engine's output happens only after the flush; before it the
\* session has read nothing.
C15_ReadAfterFlush ==
    [][\A s \in Slots :
         /\ Writes(sessions[s], sessions'[s])
               => /\ sessions[s].pc = "write"
                  /\ sessions'[s].stdin = Commands(Fen(sessions[s].game))
         /\ Flushes(sessions[s], sessions'[s])
               => /\ sessions[s].pc = "flush"
                  /\ sessions[s].stdin = Commands(Fen(sessions[s].game))
         /\ Reads(sessions[s], sessions'[s])
               => /\ sessions[s].flushed
                  /\ sessions[s].stdin = Commands(Fen(sessions[s].game))
         /\ sessions[s].pc \in {"spawn", "write", "flush"}
               => sessions[s].output = <<>> /\ sessions'[s].output = <<>>]_vars

\* A session has read engine output, after its write and its flush.
C15_ReadingAfterFlush ==
    \E s \in Slots :
        /\ sessions[s].pc = "read"
        /\ sessions[s].output # <<>>
        /\ sessions[s].flushed
        /\ sessions[s].stdin # <<>>

\* spec.md 4.4: the startup protocol, line by line.
StartupProtocol ==
    <<"uci", "isready", "ucinewgame", "position fen",
      "setoption name Skill Level value 20",
      "setoption name Contempt value 100",
      "setoption name UCI_LimitStrength value false",
      "go movetime 5000">>

\* The step starts a session in the slot s.
Starts(pre, post) == post.pc = "spawn" /\ pre.pc # "spawn"
Live(st) == st.pc \in {"spawn", "write", "flush", "read"}

\* The commands are the startup protocol with the position fen after
\* "position fen", and nothing else.
IsStartupProtocol(stdin, fen) ==
    /\ Len(stdin) = Len(StartupProtocol)
    /\ \A i \in 1..Len(stdin) :
          /\ stdin[i].text = StartupProtocol[i]
          /\ stdin[i].fen = (IF i = 4 THEN Some(fen) ELSE None)

\* C16: a session is started with the game as it is after the user's move,
\* and what it sends to the engine is exactly the startup protocol, "go"
\* last, with the FEN of that position; it sends nothing after it.
C16_StartupProtocolSent ==
    [][\A s \in Slots :
         /\ Starts(sessions[s], sessions'[s])
               => /\ sessions'[s].game = game'
                  /\ game' # game
                  /\ IsSome(selected_square)
                  /\ \E square \in UserSquares :
                        game' = MakeMove(game,
                                  ChessMoveNew(Unwrap(selected_square), square, NoPromo))
         /\ (Live(sessions[s]) /\ Live(sessions'[s]))
               => sessions'[s].game = sessions[s].game
         /\ Writes(sessions[s], sessions'[s])
               => IsStartupProtocol(sessions'[s].stdin, Fen(sessions[s].game))
         /\ (sessions[s].stdin # <<>> /\ Live(sessions'[s]))
               => sessions'[s].stdin = sessions[s].stdin]_vars

\* A session has sent the commands for the position after the user's move,
\* in which Black is to move.
C16_CommandsSent ==
    \E s \in Slots :
        /\ Live(sessions[s])
        /\ sessions[s].game = game
        /\ game.side_to_move = Black
        /\ IsStartupProtocol(sessions[s].stdin, Fen(game))

\* C17: a line is interpreted only once its newline has been received: what
\* a reading session has recorded (evaluation, principal variation) is what
\* the complete lines of its buffer yield, nothing of the trailing partial
\* line.
C17_NothingFromPartialLine ==
    \A s \in Slots :
        sessions[s].pc = "read"
        => LET whole == ProcessLines(CompleteLines(sessions[s].output), 1, LoopInit)
           IN /\ sessions[s].evaluation = whole.evaluation
              /\ sessions[s].pv = whole.pv

(***************************************************************************)
(* The application state under update() (main.rs 70-120).                  *)
(***************************************************************************)
\* C18: in every reachable state current_turn is the side to move in the
\* game's position.
C18_TurnIsSideToMove ==
    current_turn = game.side_to_move

\* C19: a running engine session was started for a game without a result.
C19_SessionOnlyForOpenGame ==
    \A s \in Slots : Live(sessions[s]) => ~IsSome(Result(sessions[s].game))

\* C20: once the game has a result, no step changes a field of the
\* application state, whatever message update() receives (SquareSelected,
\* EngineMove, NewGame), and no session is started.
C20_ResultFreezesState ==
    [][IsSome(Result(game))
       => /\ UNCHANGED appVars
          /\ \A s \in Slots : ~Starts(sessions[s], sessions'[s])]_vars

\* The user's move has ended the game, and the EngineMove of the session it
\* started (the only slot ever used) has been delivered to update() since.
C20_DeliveredAfterResult ==
    /\ Result(game) = Some("WhiteCheckmates")
    /\ status = StatusThinking
    /\ sessions[1].pc = "delivered"
    /\ \A s \in Slots : s # 1 => sessions[s].pc = "idle"

====
